---- MODULE Spec2Model ----
(***************************************************************************)
(* A model of the ScrollVelocity tracker (scroll-velocity.js, UMD build).  *)
(*                                                                         *)
(* Numbers.  The program computes in IEEE-754 doubles.  The model keeps    *)
(* every real quantity as an integer count of 1/S units (fixed point);     *)
(* products and quotients are rounded to the nearest unit, ties to even,   *)
(* which is what the floating point unit does at its own resolution.  The  *)
(* pure operators take the resolution S as a parameter; the state machine  *)
(* runs them at S = SCALE.  NaN and the infinities are outside the model:  *)
(* every numeric option is a finite number.                                *)
(*                                                                         *)
(* Environment.  The browser is modelled by three pieces of state: the     *)
(* scroll listener registered on window (listening), the animation frame   *)
(* callbacks that were requested and neither ran nor were cancelled        *)
(* (rafQueue), and the answer of the prefers-reduced-motion media query    *)
(* (prefersReducedMotion).  The scroll offset and the clock are inputs of  *)
(* the handlers that read them; the clock never runs backwards.            *)
(***************************************************************************)
EXTENDS Integers, Sequences, FiniteSets, TLC

VARIABLES
    isRunning,            \* this._isRunning
    rafId,                \* this._rafId (0: none)
    velocity,             \* this._velocity, in 1/SCALE units
    lastScrollY,          \* this._lastScrollY, px
    lastTime,             \* this._lastTime, ms
    options,              \* the configuration fields of the instance
    listening,            \* window has this._boundOnScroll as scroll listener
    rafQueue,             \* handles of the animation frames still pending
    prefersReducedMotion, \* matchMedia("(prefers-reduced-motion: reduce)").matches
    lastOp,               \* history: the operation that ran last
    published             \* history: the outputs that operation wrote, in order

vars == <<isRunning, rafId, velocity, lastScrollY, lastTime, options,
          listening, rafQueue, prefersReducedMotion, lastOp, published>>

----------------------------------------------------------------------------
(* Bounds of the model *)

\* units per 1.0 in the state machine
SCALE == 4
\* scroll offsets are 0..MaxY px
MaxY == 2
\* the clock reads ClockStep * (0, 1, 3, 6, ...) ms, MaxClock + 1 readings
MaxClock == 2
ClockStep == 9
\* where the decay may grow the velocity, ticks run up to |velocity| = MaxSpeed
MaxSpeed == 4
\* units per 1.0 where a decay is followed tick by tick
FineScale == 10000

----------------------------------------------------------------------------
(* Fixed point arithmetic *)

Abs(x) == IF x < 0 THEN -x ELSE x

Min2(a, b) == IF a < b THEN a ELSE b

Max2(a, b) == IF a > b THEN a ELSE b

\* n / d (d > 0) rounded to the nearest integer, ties to even
RoundDiv(n, d) ==
    LET q == n \div d
        r == n % d
    IN  IF 2 * r < d THEN q
        ELSE IF 2 * r > d THEN q + 1
        ELSE IF q % 2 = 0 THEN q ELSE q + 1

\* the literal num/den, in 1/S units
Fixed(num, den, S) == RoundDiv(num * S, den)

\* a * b
Mul(a, b, S) == RoundDiv(a * b, S)

\* a / b, b # 0
Div(a, b, S) == IF b > 0 THEN RoundDiv(a * S, b) ELSE RoundDiv(-(a * S), -b)

\* Math.log(n) for whole n in 1..64, in 1/10000 units
LnTable ==
    << 0, 6931, 10986, 13863, 16094, 17918, 19459, 20794,
       21972, 23026, 23979, 24849, 25649, 26391, 27081, 27726,
       28332, 28904, 29444, 29957, 30445, 30910, 31355, 31781,
       32189, 32581, 32958, 33322, 33673, 34012, 34340, 34657,
       34965, 35264, 35553, 35835, 36109, 36376, 36636, 36889,
       37136, 37377, 37612, 37842, 38067, 38286, 38501, 38712,
       38918, 39120, 39318, 39512, 39703, 39890, 40073, 40254,
       40431, 40604, 40775, 40943, 41109, 41271, 41431, 41589 >>

\* Math.log(t), t >= 1 in 1/S units; the argument is taken to the nearest
\* whole number, and beyond the table to its last entry
Ln(t, S) ==
    LET n == Min2(Max2(RoundDiv(t, S), 1), Len(LnTable))
    IN  RoundDiv(LnTable[n] * S, 10000)

\* Math.min(1, Math.pow(abs, 0.7) * 1.35) at abs = k/16, in 1/10000 units
PowTable ==
    << 1938, 3149, 4182, 5116, 5980, 6794, 7569, 8310,
       9024, 9715, 10000, 10000, 10000, 10000, 10000, 10000 >>

\* x.toFixed(digits): x in 1/S units to the nearest 10^-digits, ties away
\* from zero; the result in 10^-digits units
ToFixed(x, pow10, S) ==
    LET n == Abs(x) * pow10
        q == n \div S
        r == n % S
        m == IF 2 * r >= S THEN q + 1 ELSE q
    IN  IF x < 0 THEN -m ELSE m

----------------------------------------------------------------------------
(* The pure functions of the source *)

\* clamp with the lower bound forgotten
clampUpperOnly(value, min, max) == Min2(max, value)

\* function clamp(value, min, max)
clamp(value, min, max) == Max2(min, Min2(max, value))

\* getNormalizedVelocity() without its clamp
getNormalizedVelocityUnclamped(v, maxVelocity, S) ==
    IF maxVelocity <= 0 THEN 0 ELSE Div(v, maxVelocity, S)

\* getNormalizedVelocity()
getNormalizedVelocity(v, maxVelocity, S) ==
    IF maxVelocity <= 0 THEN 0
    ELSE clamp(Div(v, maxVelocity, S), -S, S)

\* the elapsed time without its fallback
deltaTOfNoFallback(now, last, S) == (now - last) * S

\* const deltaT = now - this._lastTime || 16.7
deltaTOf(now, last, S) ==
    IF now - last = 0 THEN Fixed(167, 10, S) ELSE (now - last) * S

\* the 'time' branch of the sampling modes
TimeSample(deltaY, deltaT, S) ==
    (IF deltaT > 0 THEN Div(deltaY, deltaT, S) ELSE 0) * 12

\* the 'hybrid' branch without its noise filter
HybridSampleUnfiltered(deltaY, deltaT, S) ==
    LET cappedDeltaT == Max2(deltaT, 4 * S)
        filteredDeltaY == deltaY
    IN  IF cappedDeltaT < 10 * S
        THEN Mul(filteredDeltaY,
                 Fixed(85, 100, S)
                     + Mul(Fixed(15, 100, S), Div(cappedDeltaT, 10 * S, S), S),
                 S)
        ELSE IF cappedDeltaT > 25 * S
        THEN LET adaptiveScale == 6 * S + Ln(cappedDeltaT, S) * 2
             IN  Mul(Div(filteredDeltaY, cappedDeltaT, S), adaptiveScale, S)
        ELSE LET deltaRatio == Div(25 * S - cappedDeltaT, 15 * S, S)
                 deltaComponent == Mul(filteredDeltaY, Fixed(7, 10, S), S)
                 timeComponent == Div(filteredDeltaY, cappedDeltaT, S) * 8
             IN  Mul(deltaRatio, deltaComponent, S)
                     + Mul(S - deltaRatio, timeComponent, S)

\* the 'hybrid' branch of the sampling modes
HybridSample(deltaY, deltaT, S) ==
    LET cappedDeltaT == Max2(deltaT, 4 * S)
        filteredDeltaY == IF Abs(deltaY) < Fixed(3, 10, S) THEN 0 ELSE deltaY
    IN  IF cappedDeltaT < 10 * S
        THEN Mul(filteredDeltaY,
                 Fixed(85, 100, S)
                     + Mul(Fixed(15, 100, S), Div(cappedDeltaT, 10 * S, S), S),
                 S)
        ELSE IF cappedDeltaT > 25 * S
        THEN LET adaptiveScale == 6 * S + Ln(cappedDeltaT, S) * 2
             IN  Mul(Div(filteredDeltaY, cappedDeltaT, S), adaptiveScale, S)
        ELSE LET deltaRatio == Div(25 * S - cappedDeltaT, 15 * S, S)
                 deltaComponent == Mul(filteredDeltaY, Fixed(7, 10, S), S)
                 timeComponent == Div(filteredDeltaY, cappedDeltaT, S) * 8
             IN  Mul(deltaRatio, deltaComponent, S)
                     + Mul(S - deltaRatio, timeComponent, S)

\* the sampling modes with the delta branch computed as the time branch
InstantaneousTimed(sampleMode, deltaY, deltaT, S) ==
    IF sampleMode = "hybrid" THEN HybridSample(deltaY, deltaT, S)
    ELSE TimeSample(deltaY, deltaT, S)

\* the sampling modes of _onScroll: the instantaneous estimate
Instantaneous(sampleMode, deltaY, deltaT, S) ==
    IF sampleMode = "time" THEN TimeSample(deltaY, deltaT, S)
    ELSE IF sampleMode = "hybrid" THEN HybridSample(deltaY, deltaT, S)
    ELSE deltaY

\* a blend that converges to the instantaneous estimate
BlendConverging(v, instantaneous, responsiveness, S) ==
    v + Mul(instantaneous - v, responsiveness, S)

\* blend toward target, before the clamp
Blend(v, instantaneous, responsiveness, S) ==
    LET targetVelocity == v + instantaneous
    IN  v + Mul(targetVelocity - v, responsiveness, S)

\* the attraction not inverted: velocity *= (1 + attraction)
DecayProductAdded(v, friction, attraction, S) ==
    Mul(Mul(v, friction, S), S + attraction, S)

\* velocity *= friction; velocity *= (1 - attraction)
DecayProduct(v, friction, attraction, S) ==
    Mul(Mul(v, friction, S), S - attraction, S)

\* the snap to zero forgotten
SnapNever(v, threshold) == v

\* if (Math.abs(velocity) < threshold) velocity = 0
Snap(v, threshold) == IF Abs(v) < threshold THEN 0 ELSE v

\* the reduced-motion test of both handlers
ReducedMotion(opts, prefers) == opts.respectReducedMotion /\ prefers

\* true of the targets that have a style object
HasStyle(target) == target # "bare"

\* Math.min(1, Math.pow(abs, 0.7) * 1.35), abs in 0..1 (1/S units), to 1/10000
PowCurve(abs, S) ==
    LET k == (Min2(abs, S) * 16 + S - 1) \div S
    IN  IF k = 0 THEN 0 ELSE PowTable[k]

\* _writeCSS(normalized) without its guard
WriteCSSUnguarded(opts, normalized, v, S) ==
    LET abs == Abs(normalized)
    IN  << << ToFixed(normalized, 10000, S),
              ToFixed(abs, 10000, S),
              PowCurve(abs, S),
              ToFixed(v, 100, S) >> >>

\* _writeCSS(normalized): the four values written, or nothing
WriteCSS(opts, normalized, v, S) ==
    IF ~opts.writeCSSVariables \/ ~HasStyle(opts.target) THEN << >>
    ELSE LET abs == Abs(normalized)
         IN  << << ToFixed(normalized, 10000, S),
                   ToFixed(abs, 10000, S),
                   PowCurve(abs, S),
                   ToFixed(v, 100, S) >> >>

\* the output that is zero in all four values
ZeroOutput == << 0, 0, 0, 0 >>

----------------------------------------------------------------------------
(* Option objects: the arguments of the constructor and of setOptions.     *)
(* An option object is a function from the keys it holds to values; a      *)
(* value carries its typeof, and what the code reads of it.                *)

NumV(n) == [kind |-> "number", num |-> n, str |-> "", truthy |-> n # 0]

StrV(s) == [kind |-> "string", num |-> 0, str |-> s, truthy |-> s # ""]

BoolV(b) == [kind |-> "boolean", num |-> 0, str |-> "", truthy |-> b]

\* an element ("body", "el") or an object without style ("bare")
ObjV(t) == [kind |-> "object", num |-> 0, str |-> t, truthy |-> TRUE]

Undefined == [kind |-> "undefined", num |-> 0, str |-> "", truthy |-> FALSE]

\* "key" in o
In(key, o) == key \in DOMAIN o

\* typeof o.key === "number" (false of an absent key: typeof undefined)
IsNumber(key, o) == In(key, o) /\ o[key].kind = "number"

\* o.key is truthy (false of an absent key)
Truthy(key, o) == In(key, o) /\ o[key].truthy

\* o.key !== false
NotFalse(key, o) == ~(In(key, o) /\ o[key].kind = "boolean" /\ ~o[key].truthy)

\* typeof o.key === "number" ? o.key : fallback
NumberOr(key, o, fallback) == IF IsNumber(key, o) THEN o[key].num ELSE fallback

\* constructor(options): the configuration fields
Constructor(o, S) ==
    [ target               |-> IF Truthy("target", o) THEN o["target"].str ELSE "body",
      sampleMode           |-> IF Truthy("sampleMode", o) THEN o["sampleMode"].str
                               ELSE "hybrid",
      responsiveness       |-> NumberOr("responsiveness", o, Fixed(35, 100, S)),
      friction             |-> NumberOr("friction", o, Fixed(92, 100, S)),
      attraction           |-> NumberOr("attraction", o, Fixed(4, 100, S)),
      threshold            |-> NumberOr("threshold", o, Fixed(2, 100, S)),
      maxVelocity          |-> NumberOr("maxVelocity", o, 200 * S),
      writeCSSVariables    |-> NotFalse("writeCSSVariables", o),
      respectReducedMotion |-> NotFalse("respectReducedMotion", o) ]

\* setOptions as a reconstruction: the fields not supplied fall back to
\* the defaults
MergeOptionsReplacing(opts, o) == Constructor(o, SCALE)

\* setOptions without the old parameter name
MergeOptionsNoAlias(opts, o) ==
    [ opts EXCEPT
        !.target         = IF Truthy("target", o) THEN o["target"].str ELSE @,
        !.sampleMode     = IF In("sampleMode", o)
                           THEN (IF Truthy("sampleMode", o)
                                 THEN o["sampleMode"].str ELSE "hybrid")
                           ELSE @,
        !.responsiveness = NumberOr("responsiveness", o, @),
        !.friction       = NumberOr("friction", o, @),
        !.attraction     = NumberOr("attraction", o, @),
        !.threshold      = NumberOr("threshold", o, @),
        !.maxVelocity    = NumberOr("maxVelocity", o, @),
        !.writeCSSVariables    = IF In("writeCSSVariables", o)
                                 THEN Truthy("writeCSSVariables", o) ELSE @,
        !.respectReducedMotion = IF In("respectReducedMotion", o)
                                 THEN Truthy("respectReducedMotion", o) ELSE @ ]

\* setOptions(nextOptions): the configuration fields afterwards
MergeOptions(opts, o) ==
    [ target               |-> IF In("target", o) /\ Truthy("target", o)
                               THEN o["target"].str ELSE opts.target,
      sampleMode           |-> IF In("sampleMode", o)
                               THEN (IF Truthy("sampleMode", o)
                                     THEN o["sampleMode"].str ELSE "hybrid")
                               ELSE opts.sampleMode,
      responsiveness       |-> IF IsNumber("dampening", o) THEN o["dampening"].num
                               ELSE NumberOr("responsiveness", o, opts.responsiveness),
      friction             |-> NumberOr("friction", o, opts.friction),
      attraction           |-> NumberOr("attraction", o, opts.attraction),
      threshold            |-> NumberOr("threshold", o, opts.threshold),
      maxVelocity          |-> NumberOr("maxVelocity", o, opts.maxVelocity),
      writeCSSVariables    |-> IF In("writeCSSVariables", o)
                               THEN Truthy("writeCSSVariables", o)
                               ELSE opts.writeCSSVariables,
      respectReducedMotion |-> IF In("respectReducedMotion", o)
                               THEN Truthy("respectReducedMotion", o)
                               ELSE opts.respectReducedMotion ]

----------------------------------------------------------------------------
(* The inputs the model draws.  A domain names, for every option, the      *)
(* values the constructor and setOptions are given.                        *)

NumericKeys == {"responsiveness", "friction", "attraction", "threshold", "maxVelocity"}

BooleanKeys == {"writeCSSVariables", "respectReducedMotion"}

\* the option objects given to the constructor: every field supplied
ConstructorArgs(D) ==
    { [ target               |-> ObjV(t),
        sampleMode           |-> StrV(m),
        responsiveness       |-> NumV(r),
        friction             |-> NumV(f),
        attraction           |-> NumV(a),
        threshold            |-> NumV(th),
        maxVelocity          |-> NumV(mv),
        writeCSSVariables    |-> BoolV(w),
        respectReducedMotion |-> BoolV(rm) ] :
        t \in D.target, m \in D.sampleMode, r \in D.responsiveness,
        f \in D.friction, a \in D.attraction, th \in D.threshold,
        mv \in D.maxVelocity, w \in D.writeCSSVariables,
        rm \in D.respectReducedMotion }

\* the option objects given to setOptions: none, or one key (a value of its
\* domain, or one of the wrong type), or the old and the new name together
SetOptionsArgs(D) ==
    { << >> }
    \cup { ("target" :> v) : v \in {ObjV(t) : t \in D.target} \cup {Undefined} }
    \cup { ("sampleMode" :> StrV(m)) : m \in D.sampleMode }
    \cup UNION { { (k :> v) : v \in {NumV(n) : n \in D[k]} \cup {StrV("x")} } :
                 k \in NumericKeys }
    \cup { ("dampening" :> v) :
           v \in {NumV(n) : n \in D.responsiveness} \cup {StrV("x")} }
    \cup UNION { { (k :> BoolV(b)) : b \in D[k] } : k \in BooleanKeys }
    \cup { ("responsiveness" :> NumV(r)) @@ ("dampening" :> NumV(d)) :
           r \in D.responsiveness, d \in D.responsiveness }

\* the domain of Spec: every flag, the decay and the threshold vary
Domain ==
    [ target               |-> {"body", "bare"},
      sampleMode           |-> {"delta", "time", "hybrid"},
      responsiveness       |-> {SCALE \div 2},
      friction             |-> {SCALE \div 2, SCALE},
      attraction           |-> {0},
      threshold            |-> {0, SCALE \div 2},
      maxVelocity          |-> {SCALE},
      writeCSSVariables    |-> BOOLEAN,
      respectReducedMotion |-> BOOLEAN ]

\* window.scrollY || window.pageYOffset || 0
Positions == 0 .. MaxY

\* performance.now()
ClockReadings == { ClockStep * ((k * (k + 1)) \div 2) : k \in 0 .. MaxClock }

----------------------------------------------------------------------------
(* The browser *)

\* requestAnimationFrame(callback): the handle it returns, never 0
NewHandle(queue) ==
    CHOOSE h \in 1 .. (Cardinality(queue) + 1) :
        h \notin queue /\ \A g \in 1 .. (h - 1) : g \in queue

----------------------------------------------------------------------------
(* The state machine *)

\* history: the operation that ran last and the branch it took
Did(op, path) == [op |-> op, path |-> path]

\* new ScrollVelocity(o), o one of args; the history notes an option object
\* that names the responsiveness by its old name only
InitWith(args) ==
    /\ \E o \in args :
           /\ options = Constructor(o, SCALE)
           /\ lastOp = Did("new", IF In("dampening", o) /\ ~In("responsiveness", o)
                                  THEN "dampening" ELSE "")
    /\ isRunning = FALSE
    /\ rafId = 0
    /\ velocity = 0
    /\ lastScrollY = 0
    /\ lastTime = 0
    /\ listening = FALSE
    /\ rafQueue = {}
    /\ prefersReducedMotion \in BOOLEAN
    /\ published = << >>

InitOver(D) == InitWith(ConstructorArgs(D))

\* start() without its test of _isRunning
StartAgain(y, now) ==
    /\ published' = << >>
    /\ lastOp' = Did("start", IF isRunning THEN "noop" ELSE "started")
    /\ isRunning' = TRUE
    /\ lastScrollY' = y
    /\ lastTime' = now
    /\ listening' = TRUE
    /\ rafId' = NewHandle(rafQueue)
    /\ rafQueue' = rafQueue \cup {NewHandle(rafQueue)}
    /\ UNCHANGED <<velocity, options, prefersReducedMotion>>

\* start()
Start(y, now) ==
    /\ published' = << >>
    /\ IF isRunning
       THEN /\ lastOp' = Did("start", "noop")
            /\ UNCHANGED <<isRunning, rafId, velocity, lastScrollY, lastTime,
                           listening, rafQueue>>
       ELSE /\ lastOp' = Did("start", "started")
            /\ isRunning' = TRUE
            /\ lastScrollY' = y
            /\ lastTime' = now
            /\ listening' = TRUE
            /\ rafId' = NewHandle(rafQueue)
            /\ rafQueue' = rafQueue \cup {NewHandle(rafQueue)}
            /\ UNCHANGED velocity
    /\ UNCHANGED <<options, prefersReducedMotion>>

\* stop() without cancelAnimationFrame
CancelNothing(queue, id) == queue

\* if (this._rafId) cancelAnimationFrame(this._rafId)
CancelPending(queue, id) == IF id # 0 THEN queue \ {id} ELSE queue

\* stop() writing the output before it resets the velocity
StopWritesBeforeReset ==
    /\ IF ~isRunning
       THEN /\ lastOp' = Did("stop", "noop")
            /\ published' = << >>
            /\ UNCHANGED <<isRunning, rafId, velocity, listening, rafQueue>>
       ELSE /\ lastOp' = Did("stop", "stopped")
            /\ isRunning' = FALSE
            /\ listening' = FALSE
            /\ rafQueue' = CancelPending(rafQueue, rafId)
            /\ rafId' = 0
            /\ velocity' = 0
            /\ published' = WriteCSS(options, 0, velocity, SCALE)
    /\ UNCHANGED <<lastScrollY, lastTime, options, prefersReducedMotion>>

\* stop()
Stop ==
    /\ IF ~isRunning
       THEN /\ lastOp' = Did("stop", "noop")
            /\ published' = << >>
            /\ UNCHANGED <<isRunning, rafId, velocity, listening, rafQueue>>
       ELSE /\ lastOp' = Did("stop", "stopped")
            /\ isRunning' = FALSE
            /\ listening' = FALSE
            /\ rafQueue' = CancelPending(rafQueue, rafId)
            /\ rafId' = 0
            /\ velocity' = 0
            /\ published' = WriteCSS(options, 0, 0, SCALE)
    /\ UNCHANGED <<lastScrollY, lastTime, options, prefersReducedMotion>>

\* setOptions(nextOptions) resetting the velocity, as a reconstruction would
SetOptionsResetting(nextOptions) ==
    /\ lastOp' = Did("setOptions", "")
    /\ published' = << >>
    /\ options' = MergeOptions(options, nextOptions)
    /\ velocity' = 0
    /\ UNCHANGED <<isRunning, rafId, lastScrollY, lastTime,
                   listening, rafQueue, prefersReducedMotion>>

\* setOptions(nextOptions)
SetOptions(nextOptions) ==
    /\ lastOp' = Did("setOptions", "")
    /\ published' = << >>
    /\ options' = MergeOptions(options, nextOptions)
    /\ UNCHANGED <<isRunning, rafId, velocity, lastScrollY, lastTime,
                   listening, rafQueue, prefersReducedMotion>>

\* a frame requested whether or not one is pending
EnsureRafAlways(id, queue) == <<NewHandle(queue), queue \cup {NewHandle(queue)}>>

\* the request forgotten
EnsureRafNever(id, queue) == <<id, queue>>

\* if (!this._rafId) this._rafId = requestAnimationFrame(this._boundOnRaf):
\* the handle field and the browser's queue afterwards
EnsureRaf(id, queue) ==
    IF id = 0 THEN <<NewHandle(queue), queue \cup {NewHandle(queue)}>>
    ELSE <<id, queue>>

\* _onScroll() recording the position and the clock on the reduced-motion
\* path as well
OnScrollRecording(y, now) ==
    /\ listening
    /\ rafId' = EnsureRaf(rafId, rafQueue)[1]
    /\ rafQueue' = EnsureRaf(rafId, rafQueue)[2]
    /\ IF ReducedMotion(options, prefersReducedMotion)
       THEN /\ lastOp' = Did("scroll", "reduced")
            /\ velocity' = 0
            /\ published' = WriteCSS(options, 0, 0, SCALE)
            /\ lastScrollY' = y
            /\ lastTime' = now
       ELSE LET deltaY == (y - lastScrollY) * SCALE
                deltaT == deltaTOf(now, lastTime, SCALE)
                instantaneous ==
                    Instantaneous(options.sampleMode, deltaY, deltaT, SCALE)
                blended ==
                    Blend(velocity, instantaneous, options.responsiveness, SCALE)
                clamped ==
                    clamp(blended, -options.maxVelocity, options.maxVelocity)
            IN  /\ lastOp' = Did("scroll",
                                 IF clamped # blended THEN "clamped" ELSE "blended")
                /\ lastScrollY' = y
                /\ lastTime' = now
                /\ velocity' = clamped
                /\ published' = << >>
    /\ UNCHANGED <<isRunning, options, listening, prefersReducedMotion>>

\* _onScroll(), run by the browser for a scroll event while the listener is
\* registered; y and now are what it reads of the window and the clock;
\* computed in 1/S units, positions given in 1/U pixels (U divides S)
OnScrollAt(y, now, S, U) ==
    /\ listening
    /\ rafId' = EnsureRaf(rafId, rafQueue)[1]
    /\ rafQueue' = EnsureRaf(rafId, rafQueue)[2]
    /\ IF ReducedMotion(options, prefersReducedMotion)
       THEN /\ lastOp' = Did("scroll", "reduced")
            /\ velocity' = 0
            /\ published' = WriteCSS(options, 0, 0, S)
            /\ UNCHANGED <<lastScrollY, lastTime>>
       ELSE LET deltaY == (y - lastScrollY) * (S \div U)
                deltaT == deltaTOf(now, lastTime, S)
                instantaneous ==
                    Instantaneous(options.sampleMode, deltaY, deltaT, S)
                blended ==
                    Blend(velocity, instantaneous, options.responsiveness, S)
                clamped ==
                    clamp(blended, -options.maxVelocity, options.maxVelocity)
            IN  /\ lastOp' = Did("scroll",
                                 IF clamped # blended THEN "clamped" ELSE "blended")
                /\ lastScrollY' = y
                /\ lastTime' = now
                /\ velocity' = clamped
                /\ published' = << >>
    /\ UNCHANGED <<isRunning, options, listening, prefersReducedMotion>>

\* _onScroll(), run by the browser for a scroll event while the listener is
\* registered; y and now are what it reads of the window and the clock
OnScroll(y, now) == OnScrollAt(y, now, SCALE, 1)

\* the tick handler running its decay step although the override is active
DecayRegardless(v, opts, prefers, S) ==
    Snap(DecayProduct(v, opts.friction, opts.attraction, S), opts.threshold)

\* the decay step of _onRaf, skipped under reduced motion
Decay(v, opts, prefers, S) ==
    IF ReducedMotion(opts, prefers) THEN v
    ELSE Snap(DecayProduct(v, opts.friction, opts.attraction, S), opts.threshold)

\* the frame re-armed whatever the velocity
RearmWhileRunning(running, v) == running

\* if (this._isRunning && Math.abs(this._velocity) > 0): the frame is re-armed
Rearm(running, v) == running /\ Abs(v) > 0

\* _onRaf() for the pending animation frame h, computed in 1/S units
OnRafAt(h, S) ==
    /\ h \in rafQueue
    /\ lastOp' =
           Did("raf",
               IF ReducedMotion(options, prefersReducedMotion) THEN "reduced"
               ELSE IF /\ velocity # 0
                       /\ Abs(DecayProduct(velocity, options.friction,
                                           options.attraction, S))
                              < options.threshold
               THEN "snapped"
               ELSE "decayed")
    /\ velocity' = Decay(velocity, options, prefersReducedMotion, S)
    /\ published' =
           WriteCSS(options,
                    getNormalizedVelocity(velocity', options.maxVelocity, S),
                    velocity', S)
    /\ rafId' = IF Rearm(isRunning, velocity')
                THEN NewHandle(rafQueue \ {h}) ELSE 0
    /\ rafQueue' = IF Rearm(isRunning, velocity')
                   THEN (rafQueue \ {h}) \cup {NewHandle(rafQueue \ {h})}
                   ELSE rafQueue \ {h}
    /\ UNCHANGED <<isRunning, lastScrollY, lastTime, options, listening,
                   prefersReducedMotion>>

\* _onRaf(), run by the browser for the pending animation frame h
OnRaf(h) == OnRafAt(h, SCALE)

\* the user, or the system, changes the reduced-motion preference
PreferenceChange ==
    /\ prefersReducedMotion' = ~prefersReducedMotion
    /\ lastOp' = Did("preference", "")
    /\ published' = << >>
    /\ UNCHANGED <<isRunning, rafId, velocity, lastScrollY, lastTime, options,
                   listening, rafQueue>>

\* a call of start(): it reads the scroll offset and the clock
StartCall ==
    \E y \in Positions, now \in ClockReadings : now >= lastTime /\ Start(y, now)

\* a call of setOptions with an option object over the domain D
SetOptionsCall(D) == \E o \in SetOptionsArgs(D) : SetOptions(o)

\* the browser dispatches a scroll event
ScrollEvent ==
    \E y \in Positions, now \in ClockReadings : now >= lastTime /\ OnScroll(y, now)

\* the browser runs a pending animation frame
AnimationFrame == \E h \in rafQueue : OnRaf(h)

NextOver(D) ==
    \/ StartCall
    \/ Stop
    \/ SetOptionsCall(D)
    \/ ScrollEvent
    \/ AnimationFrame
    \/ PreferenceChange

Init == InitOver(Domain)

Next == NextOver(Domain)

\* the tracker under every interleaving of its operations
Spec == Init /\ [][Next]_vars

\* the domain of NumSpec: the numbers of the blend and of the clamp vary,
\* output goes to an element and the preference is not respected
NumDomain ==
    [ target               |-> {"body"},
      sampleMode           |-> {"delta", "time", "hybrid"},
      responsiveness       |-> {SCALE \div 2, SCALE},
      friction             |-> {SCALE \div 2},
      attraction           |-> {0, SCALE \div 2},
      threshold            |-> {SCALE \div 2},
      maxVelocity          |-> {-SCALE, 0, SCALE, 2 * SCALE},
      writeCSSVariables    |-> {TRUE},
      respectReducedMotion |-> {FALSE} ]

NumInit == InitOver(NumDomain)

NumNext == NextOver(NumDomain)

\* the tracker over the numeric domain
NumSpec == NumInit /\ [][NumNext]_vars

\* the domain of LiveSpec: what decides whether the decay loop ends varies
\* (the decay factor, the threshold, the reduced-motion flag)
LiveDomain ==
    [ target               |-> {"body"},
      sampleMode           |-> {"delta"},
      responsiveness       |-> {SCALE \div 2},
      friction             |-> {SCALE \div 2, SCALE},
      attraction           |-> {0},
      threshold            |-> {0, SCALE \div 2},
      maxVelocity          |-> {SCALE},
      writeCSSVariables    |-> {TRUE},
      respectReducedMotion |-> BOOLEAN ]

LiveInit == InitOver(LiveDomain)

LiveNext == NextOver(LiveDomain)

\* every pending animation frame is eventually run by the browser
Fairness == WF_vars(AnimationFrame)

\* the tracker in a browser that keeps painting
LiveSpec == LiveInit /\ [][LiveNext]_vars /\ Fairness

\* the domain of DecaySpec: the factors of the decay and the threshold vary,
\* friction below 0 and below -1 included
DecayDomain ==
    [ target               |-> {"body"},
      sampleMode           |-> {"delta"},
      responsiveness       |-> {SCALE},
      friction             |-> {-(2 * SCALE), -SCALE, -(SCALE \div 2), 0,
                                SCALE \div 2, SCALE},
      attraction           |-> {0, SCALE \div 2, SCALE},
      threshold            |-> {-SCALE, 0, SCALE \div 2},
      maxVelocity          |-> {2 * SCALE},
      writeCSSVariables    |-> {TRUE},
      respectReducedMotion |-> {FALSE} ]

DecayInit == InitOver(DecayDomain)

\* the browser runs a pending animation frame, while the velocity is in range
BoundedAnimationFrame == Abs(velocity) <= MaxSpeed * SCALE /\ AnimationFrame

DecayNext ==
    \/ StartCall
    \/ ScrollEvent
    \/ BoundedAnimationFrame

\* a started tracker that is scrolled and ticks, over the decay domain
DecaySpec == DecayInit /\ [][DecayNext]_vars

\* the domain of ConfigSpec: values that are none of the defaults
ConfigDomain ==
    [ target               |-> {"body", "bare"},
      sampleMode           |-> {"delta", "time"},
      responsiveness       |-> {(3 * SCALE) \div 4, SCALE},
      friction             |-> {SCALE \div 2},
      attraction           |-> {SCALE \div 2},
      threshold            |-> {SCALE},
      maxVelocity          |-> {SCALE},
      writeCSSVariables    |-> BOOLEAN,
      respectReducedMotion |-> BOOLEAN ]

\* the option objects given to the constructor in ConfigSpec: none, or the
\* responsiveness alone under its new or under its old name
LegacyConstructorArgs ==
    { << >> }
    \cup { ("responsiveness" :> NumV(x)) : x \in ConfigDomain.responsiveness }
    \cup { ("dampening" :> NumV(x)) : x \in ConfigDomain.responsiveness }

\* option objects of loose callers: a sampleMode that is falsy, flags that
\* are no booleans, a key the tracker does not know, and the old name with
\* a value that no other object carries
LooseArgs ==
    { ("sampleMode" :> StrV("")),
      ("sampleMode" :> Undefined),
      ("writeCSSVariables" :> NumV(0)),
      ("respectReducedMotion" :> StrV("x")),
      ("color" :> StrV("x")),
      ("dampening" :> NumV(0)) }

\* the option objects given to setOptions in ConfigSpec
ConfigArgs == SetOptionsArgs(ConfigDomain) \cup LooseArgs

ConfigInit == InitWith(LegacyConstructorArgs)

ConfigNext == \E o \in ConfigArgs : SetOptions(o)

\* a tracker that is constructed and reconfigured
ConfigSpec == ConfigInit /\ [][ConfigNext]_vars

\* the domain of SkewSpec: the three sample modes, every sample taken whole
SkewDomain ==
    [ target               |-> {"body"},
      sampleMode           |-> {"delta", "time", "hybrid"},
      responsiveness       |-> {SCALE},
      friction             |-> {SCALE \div 2},
      attraction           |-> {0},
      threshold            |-> {SCALE \div 2},
      maxVelocity          |-> {2 * SCALE},
      writeCSSVariables    |-> {TRUE},
      respectReducedMotion |-> {FALSE} ]

SkewInit == InitOver(SkewDomain)

\* the browser dispatches a scroll event on a longer page, with a
\* performance.now() that can be set back (one backed by the wall clock)
ScrollEventSkewed ==
    \E y \in 0 .. (2 * MaxY), now \in ClockReadings : OnScroll(y, now)

SkewNext ==
    \/ StartCall
    \/ ScrollEventSkewed
    \/ AnimationFrame

\* a started tracker that is scrolled under a clock that is not monotonic
SkewSpec == SkewInit /\ [][SkewNext]_vars

\* the option objects of FineSpec: none (the defaults: friction 0.92,
\* attraction 0.04, threshold 0.02), or another decay and threshold
FineArgs ==
    { << >> }
    \cup { ("friction" :> NumV(Fixed(f, 100, FineScale)))
             @@ ("attraction" :> NumV(Fixed(a, 100, FineScale)))
             @@ ("threshold" :> NumV(Fixed(th, 100, FineScale))) :
           f \in {50, 92}, a \in {0, 4}, th \in {2, 10} }

\* a running tracker that a position sample has just left moving, its
\* frame pending: delta mode, responsiveness 1, scrolled by 1 or 2 px
FineInit ==
    /\ \E o \in FineArgs : options = Constructor(o, FineScale)
    /\ isRunning = TRUE
    /\ listening = TRUE
    /\ rafId = 1
    /\ rafQueue = {1}
    /\ \E y \in {-2, -1, 1, 2} :
           /\ lastScrollY = MaxY + y
           /\ velocity = y * FineScale
    /\ lastTime \in ClockReadings
    /\ prefersReducedMotion = FALSE
    /\ lastOp = Did("scroll", "blended")
    /\ published = << >>

\* the browser runs the pending animation frame
FineAnimationFrame == \E h \in rafQueue : OnRafAt(h, FineScale)

\* no position samples arrive: the tracker only ticks
FineNext == FineAnimationFrame

\* a moving tracker left to decay, at the fine resolution
FineSpec == FineInit /\ [][FineNext]_vars

----------------------------------------------------------------------------
(* Claims *)

\* the last operation was a position sample that took the blend path
Blended == lastOp.op = "scroll" /\ lastOp.path # "reduced"

\* the last operation was a position sample, on either path
Sampled == lastOp.op = "scroll"

\* output is written: the flag is set and the target has a style
OutputEnabled == options.writeCSSVariables /\ HasStyle(options.target)

\* the reduced-motion override is active
Overridden == ReducedMotion(options, prefersReducedMotion)

\* no velocity and no pending frame
Quiescent == velocity = 0 /\ rafQueue = {}

\* C1: right after a position sample that blended, with maxVelocity > 0,
\* the magnitude of velocity is at most maxVelocity.
C1_ClampInvariant ==
    (Blended /\ options.maxVelocity > 0) => Abs(velocity) <= options.maxVelocity

\* a blend whose result the clamp had to cut, under a positive maxVelocity
C1_Witness ==
    /\ lastOp = Did("scroll", "clamped")
    /\ options.maxVelocity > 0
    /\ Abs(velocity) = options.maxVelocity

\* C2: in every reachable state getNormalizedVelocity() is within [-1, 1],
\* and it is 0 whenever maxVelocity <= 0.
C2_NormalizedRange ==
    LET n == getNormalizedVelocity(velocity, options.maxVelocity, SCALE)
    IN  /\ -SCALE <= n /\ n <= SCALE
        /\ options.maxVelocity <= 0 => n = 0

\* a velocity beyond a positive maxVelocity (the ratio exceeds 1)
C2_Witness ==
    /\ options.maxVelocity > 0
    /\ Abs(velocity) > options.maxVelocity

\* C3 as stated: after every call of stop() velocity is 0 and, when output
\* is enabled, the call published the all-zero output exactly once.
C3_EveryStopPublishesOnce ==
    lastOp.op = "stop" =>
        /\ velocity = 0
        /\ OutputEnabled => published = << ZeroOutput >>

\* C3 amended: every call of stop() leaves velocity 0; on a running tracker
\* it publishes, when output is enabled, the all-zero output exactly once;
\* on a tracker that is not running, or with output disabled, it publishes
\* nothing.
C3_StopPublishesOnceIfRunning ==
    [][ lastOp'.op = "stop" =>
            /\ velocity' = 0
            /\ published' = IF isRunning /\ OutputEnabled
                            THEN << ZeroOutput >> ELSE << >> ]_vars

\* stop() has just stopped a running tracker and written the zero output
C3_Witness ==
    /\ lastOp = Did("stop", "stopped")
    /\ published = << ZeroOutput >>
    /\ velocity = 0

\* C4: while the tracker is not running no frame is pending, the scroll
\* listener is not registered, velocity is 0, neither handler has run, and
\* nothing is published by any step that starts and ends not running.
C4_StoppedStaysQuiet ==
    /\ [](~isRunning =>
            /\ rafQueue = {}
            /\ rafId = 0
            /\ ~listening
            /\ velocity = 0
            /\ lastOp.op \notin {"raf", "scroll"})
    /\ [][ (~isRunning /\ ~isRunning') => published' = << >> ]_vars

\* a tracker that was started, stopped, and has seen another call since
C4_Witness ==
    /\ ~isRunning
    /\ lastOp.op \in {"setOptions", "preference"}
    /\ lastTime > 0

\* C5: at most one animation frame is pending.
C5_AtMostOnePendingTick == Cardinality(rafQueue) <= 1

\* a position sample has left the tracker moving with exactly one frame pending
C5_Witness ==
    /\ lastOp.op = "scroll"
    /\ velocity # 0
    /\ rafQueue = {rafId}

\* C6: a running tracker with non-zero velocity has a frame pending.
C6_DecayNeverStarved ==
    (isRunning /\ velocity # 0) => (rafId # 0 /\ rafId \in rafQueue)

\* a tick has decayed the velocity, it is still non-zero, and is re-armed
C6_Witness ==
    /\ lastOp = Did("raf", "decayed")
    /\ isRunning
    /\ velocity # 0

\* the hypotheses of C7 on the configuration
DecayPremise ==
    /\ options.threshold > 0
    /\ Abs(Mul(options.friction, SCALE - options.attraction, SCALE)) < SCALE
    /\ ~Overridden

C8_SnapIsSticky ==
    [][ /\ ( /\ lastOp'.op = "raf"
             /\ ~Overridden
             /\ Abs(DecayProduct(velocity, options.friction,
                                 options.attraction, SCALE)) < options.threshold )
            => velocity' = 0
        /\ (velocity = 0 /\ lastOp'.op # "scroll") => velocity' = 0 ]_vars

\* a tick has snapped a moving tracker to exactly 0
C8_Witness ==
    /\ lastOp = Did("raf", "snapped")
    /\ velocity = 0
    /\ options.threshold > 0

C10_ReducedMotionDisablesVelocity ==
    (lastOp.op \in {"raf", "scroll"} /\ Overridden) =>
        /\ velocity = 0
        /\ \A i \in 1 .. Len(published) : published[i] = ZeroOutput

\* C11: an operation that publishes (a tick, a position sample on the
\* reduced-motion path, stop()) writes none of the four output values when,
\* at that moment, writeCSSVariables is false or the target offers nothing
\* to write to.
C11_NoOutputWhileDisabled ==
    [][ (lastOp'.op \in {"raf", "scroll", "stop"} /\ ~OutputEnabled)
            => published' = << >> ]_vars

\* a tick on a moving tracker whose target has a style, with the flag off:
\* nothing was written
C11_Witness ==
    /\ lastOp.op = "raf"
    /\ velocity # 0
    /\ ~options.writeCSSVariables
    /\ HasStyle(options.target)
    /\ published = << >>

\* C12: once a blend has made velocity non-zero, in every state (after later
\* ticks and setOptions calls too) the magnitude of velocity is at most the
\* current maxVelocity, and so is every raw value an operation published;
\* stated here for a positive maxVelocity.
C12_BoundedAtEveryObservation ==
    (velocity # 0 /\ options.maxVelocity > 0) =>
        /\ Abs(velocity) <= options.maxVelocity
        /\ \A i \in 1 .. Len(published) :
               Abs(published[i][4]) <= ToFixed(options.maxVelocity, 100, SCALE)

\* the decay factors for which C13 is stated: friction <= 1, attraction in [0, 1]
DecayFactorsAsStated ==
    /\ options.friction <= SCALE
    /\ 0 <= options.attraction /\ options.attraction <= SCALE

\* C13 as stated: for friction <= 1 and attraction in [0, 1], whatever the
\* velocity and the threshold, a tick never increases the magnitude of velocity.
C13_DecayNeverIncreases ==
    [][ (lastOp'.op = "raf" /\ DecayFactorsAsStated)
            => Abs(velocity') <= Abs(velocity) ]_vars

\* C13 amended: the same for -1 <= friction <= 1.
C13_DecayNeverIncreasesWithinUnit ==
    [][ (lastOp'.op = "raf" /\ DecayFactorsAsStated /\ -SCALE <= options.friction)
            => Abs(velocity') <= Abs(velocity) ]_vars

\* a tick has decayed a moving tracker under a negative friction within
\* [-1, 0) and it is still moving
C13_Witness ==
    /\ lastOp = Did("raf", "decayed")
    /\ DecayFactorsAsStated
    /\ -SCALE <= options.friction /\ options.friction < 0
    /\ velocity # 0

\* C14: setOptions() leaves velocity, running, the pending-tick handle, the
\* last position and the last timestamp as they are (and the subscription
\* and the pending frames with them) and publishes nothing; the tick and
\* the position sample that follow compute with the configuration it left.
C14_SetOptionsChangesConfigOnly ==
    [][ /\ lastOp'.op = "setOptions" =>
            /\ UNCHANGED <<velocity, isRunning, rafId, lastScrollY, lastTime,
                           listening, rafQueue>>
            /\ published' = << >>
        /\ lastOp'.op = "raf" =>
            /\ velocity' = Decay(velocity, options, prefersReducedMotion, SCALE)
            /\ published' =
                   WriteCSS(options,
                            getNormalizedVelocity(velocity', options.maxVelocity,
                                                  SCALE),
                            velocity', SCALE)
        /\ (lastOp'.op = "scroll" /\ lastOp'.path # "reduced") =>
            velocity' =
                clamp(Blend(velocity,
                            Instantaneous(options.sampleMode,
                                          (lastScrollY' - lastScrollY) * SCALE,
                                          deltaTOf(lastTime', lastTime, SCALE),
                                          SCALE),
                            options.responsiveness, SCALE),
                      -options.maxVelocity, options.maxVelocity) ]_vars

\* setOptions() has lowered maxVelocity under a moving, running tracker:
\* the velocity it had is still there, beyond the new bound, its frame pending
C14_Witness ==
    /\ lastOp.op = "setOptions"
    /\ isRunning
    /\ rafId \in rafQueue
    /\ options.maxVelocity > 0
    /\ Abs(velocity) > options.maxVelocity

\* the configuration fields
ConfigKeys == {"target", "sampleMode"} \cup NumericKeys \cup BooleanKeys

\* the option object o supplies the field k (the responsiveness under
\* either of its names)
Supplies(k, o) == In(k, o) \/ (k = "responsiveness" /\ In("dampening", o))

\* the field k, holding held, has taken a value that o supplies for it (a
\* flag holds the truthiness of the value)
TakesSupplied(k, o, held) ==
    \E n \in (IF k = "responsiveness" THEN {k, "dampening"} ELSE {k}) \cap DOMAIN o :
        IF k \in NumericKeys THEN o[n].kind = "number" /\ held = o[n].num
        ELSE IF k \in BooleanKeys THEN held = o[n].truthy
        ELSE IF k = "target" THEN o[n].kind = "object" /\ held = o[n].str
        ELSE o[n].kind = "string" /\ held = o[n].str

\* C15 as stated: whatever the configuration and the argument, a field the
\* argument supplies takes the supplied value, and every other field
\* retains its prior value.
C15_PresentFieldsTakeSupplied ==
    \A o \in ConfigArgs :
        LET merged == MergeOptions(options, o)
        IN  \A k \in ConfigKeys :
                IF Supplies(k, o) THEN TakesSupplied(k, o, merged[k])
                ELSE merged[k] = options[k]

\* the value o supplies for the field k is one setOptions stores: a number
\* for a numeric field, a truthy target, any value for a flag
Usable(k, o) ==
    IF k = "responsiveness" THEN IsNumber(k, o) \/ IsNumber("dampening", o)
    ELSE IF k \in NumericKeys THEN IsNumber(k, o)
    ELSE IF k \in BooleanKeys THEN In(k, o)
    ELSE Truthy(k, o)

\* C15 amended: a field supplied with a usable value takes it (the old name
\* dampening before the new one); a sampleMode supplied falsy becomes
\* "hybrid"; every other field, absent, unknown or supplied with a value
\* that is not usable, retains its prior value.
C15_UsableFieldsTakeSupplied ==
    \A o \in ConfigArgs :
        LET merged == MergeOptions(options, o)
        IN  \A k \in ConfigKeys :
                IF Usable(k, o)
                THEN /\ TakesSupplied(k, o, merged[k])
                     /\ (k = "responsiveness" /\ IsNumber("dampening", o))
                            => merged[k] = o["dampening"].num
                ELSE IF k = "sampleMode" /\ In(k, o) THEN merged[k] = "hybrid"
                ELSE merged[k] = options[k]

\* setOptions has replaced friction and the sample mode; threshold and
\* maxVelocity are as the constructor defaulted them
C15_Witness ==
    /\ lastOp.op = "setOptions"
    /\ options.friction \in ConfigDomain.friction
    /\ options.sampleMode = "time"
    /\ options.threshold = Fixed(2, 100, SCALE)
    /\ options.maxVelocity = 200 * SCALE

\* C16: from every configuration and for every number x,
\* setOptions({dampening: x}) and setOptions({responsiveness: x}) leave the
\* same configuration, whose responsiveness is x.
C16_DampeningIsResponsiveness ==
    \A x \in ConfigDomain.responsiveness \cup {0, -SCALE, 2 * SCALE} :
        LET old == MergeOptions(options, "dampening" :> NumV(x))
            new == MergeOptions(options, "responsiveness" :> NumV(x))
        IN  old = new /\ old.responsiveness = x

\* setOptions has stored the responsiveness 0, which only an object with
\* the old name carries
C16_Witness ==
    /\ lastOp.op = "setOptions"
    /\ options.responsiveness = 0

\* C17: a tracker constructed with {dampening: x} and no responsiveness is
\* configured as one constructed with {responsiveness: x}.
C17_DampeningAtConstruction ==
    lastOp = Did("new", "dampening") =>
        \E x \in ConfigDomain.responsiveness :
            options = Constructor("responsiveness" :> NumV(x), SCALE)

\* C18: start() on a running tracker changes nothing (running, velocity,
\* the last position and timestamp, the pending frame, the subscription)
\* and requests no frame; and whatever calls came before, a stop() leaves
\* no subscription and no pending frame.
C18_StartIsIdempotent ==
    [][ /\ (lastOp'.op = "start" /\ isRunning) =>
            /\ UNCHANGED <<isRunning, velocity, lastScrollY, lastTime, rafId,
                           rafQueue, listening, options>>
            /\ published' = << >>
        /\ lastOp'.op = "stop" =>
            /\ ~listening'
            /\ rafQueue' = {}
            /\ rafId' = 0 ]_vars

\* start() was called on a running, moving tracker with its frame pending
C18_Witness ==
    /\ lastOp = Did("start", "noop")
    /\ isRunning /\ listening
    /\ velocity # 0
    /\ rafQueue = {rafId}

\* the step is a position sample on the blend path
BlendStep == lastOp'.op = "scroll" /\ lastOp'.path # "reduced"

\* the velocity a position sample leaves when its estimate is computed
\* for the elapsed time deltaT
VelocityFor(deltaT) ==
    clamp(Blend(velocity,
                Instantaneous(options.sampleMode,
                              (lastScrollY' - lastScrollY) * SCALE, deltaT, SCALE),
                options.responsiveness, SCALE),
          -options.maxVelocity, options.maxVelocity)

C20_DeltaModeIsDeltaPosition ==
    /\ [](\A now \in ClockReadings :
             Instantaneous("delta", 50 * SCALE,
                           deltaTOf(now, lastTime, SCALE), SCALE) = 50 * SCALE)
    /\ [][ (BlendStep /\ options.sampleMode = "delta")
              => velocity' =
                     clamp(Blend(velocity, (lastScrollY' - lastScrollY) * SCALE,
                                 options.responsiveness, SCALE),
                           -options.maxVelocity, options.maxVelocity) ]_vars

\* a delta-mode sample taken at the earliest clock value (no time, or
\* negative time, elapsed) has blended its deltaY into the velocity
C20_Witness ==
    /\ lastOp = Did("scroll", "blended")
    /\ options.sampleMode = "delta"
    /\ lastTime = 0
    /\ velocity # 0

\* the configuration of the C21 scenario
Scenario ==
    /\ options.friction = Fixed(92, 100, FineScale)
    /\ options.attraction = Fixed(4, 100, FineScale)
    /\ options.threshold = Fixed(2, 100, FineScale)

\* one tick of the scenario's decay
ScenarioTick(v) ==
    Snap(DecayProduct(v, Fixed(92, 100, FineScale), Fixed(4, 100, FineScale),
                      FineScale),
         Fixed(2, 100, FineScale))

\* a sequence of velocities, one tick apart, continued by eight ticks
EightMore(seq) ==
    LET t1 == ScenarioTick(seq[Len(seq)])
        t2 == ScenarioTick(t1)
        t3 == ScenarioTick(t2)
        t4 == ScenarioTick(t3)
        t5 == ScenarioTick(t4)
        t6 == ScenarioTick(t5)
        t7 == ScenarioTick(t6)
        t8 == ScenarioTick(t7)
    IN  seq \o << t1, t2, t3, t4, t5, t6, t7, t8 >>

Ticks8 == EightMore(<< FineScale >>)

Ticks16 == EightMore(Ticks8)

Ticks24 == EightMore(Ticks16)

Ticks32 == EightMore(Ticks24)

\* the velocity n ticks after velocity 1.0, in the scenario (n in 0 .. 32)
AfterTicks(n) == Ticks32[n + 1]

\* a tick that is not snapped multiplies the velocity by 0.8832, to within
\* one unit of the resolution
TickMultiplies ==
    velocity' # 0 =>
        Abs(velocity' - Mul(velocity, Fixed(8832, 10000, FineScale), FineScale)) <= 1

\* C21 as stated: in the scenario each tick multiplies by 0.8832 and the
\* 30th tick after velocity 1.0 snaps the velocity to 0 and requests no
\* further tick.
C21_SnapsAfter30Ticks ==
    [][ (lastOp'.op = "raf" /\ Scenario) =>
            /\ TickMultiplies
            /\ velocity = AfterTicks(29) => (velocity' = 0 /\ rafQueue' = {}) ]_vars

\* C21 amended: in the scenario each tick multiplies by 0.8832; the first
\* 31 ticks after velocity 1.0 leave it non-zero with a tick requested, and
\* the 32nd snaps it to 0 and requests no further tick.
C21_SnapsAfter32Ticks ==
    [][ (lastOp'.op = "raf" /\ Scenario) =>
            /\ TickMultiplies
            /\ \A n \in 0 .. 30 :
                   velocity = AfterTicks(n) =>
                       /\ velocity' = AfterTicks(n + 1)
                       /\ velocity' >= options.threshold
                       /\ rafQueue' # {}
            /\ velocity = AfterTicks(31) => (velocity' = 0 /\ rafQueue' = {}) ]_vars

\* the tick that snapped the scenario's tracker: no velocity, no frame
C21_Witness ==
    /\ lastOp = Did("raf", "snapped")
    /\ Scenario
    /\ lastScrollY = MaxY + 1
    /\ velocity = 0
    /\ rafQueue = {}

----------------------------------------------------------------------------
(* Binary floating point: the two builds differ in one multiplication, by
   attraction in the old build and by (1 - attraction) in the new, and the
   difference between them is one of rounding. A number is kept in
   1/FloatOne units and carries FloatBits significant bits. *)

FloatBits == 6

FloatOne == 4096

\* the spacing of the floating-point numbers around p / d (d > 0), p / d
\* in 1/FloatOne units: the largest power of two q with
\* q * 2^(FloatBits - 1) <= |p / d|, and one unit below that
Quantum(p, d) ==
    LET fits == { j \in 0 .. 10 : (2 ^ j) * (2 ^ (FloatBits - 1)) * d <= Abs(p) }
    IN  IF fits = {} THEN 1
        ELSE 2 ^ (CHOOSE j \in fits : \A i \in fits : i <= j)

\* p / d rounded to the nearest floating-point number, ties to even
RoundFloat(p, d) == Quantum(p, d) * RoundDiv(p, d * Quantum(p, d))

\* the decimal literal num/den as the floating-point number it denotes
Literal(num, den) == RoundFloat(num * FloatOne, den)

\* a * b
FloatMul(a, b) == RoundFloat(a * b, FloatOne)

\* a - b
FloatSub(a, b) == RoundFloat(a - b, 1)

\* the decay that takes attraction itself as the second factor
FloatDecayProductDirect(v, friction, attraction) ==
    FloatMul(FloatMul(v, friction), attraction)

\* the old build: this._velocity *= this.friction;
\* this._velocity *= this.attraction
OldDecayProduct(v, friction, attraction) ==
    FloatMul(FloatMul(v, friction), attraction)

\* this._velocity *= this.friction; this._velocity *= (1 - this.attraction)
FloatDecayProduct(v, friction, attraction) ==
    FloatMul(FloatMul(v, friction), FloatSub(FloatOne, attraction))

\* _onRaf() for the pending animation frame h, in floating point
OnRafFloat(h) ==
    /\ h \in rafQueue
    /\ lastOp' =
           Did("raf",
               IF ReducedMotion(options, prefersReducedMotion) THEN "reduced"
               ELSE IF /\ velocity # 0
                       /\ Abs(FloatDecayProduct(velocity, options.friction,
                                                options.attraction))
                              < options.threshold
               THEN "snapped"
               ELSE "decayed")
    /\ velocity' =
           IF ReducedMotion(options, prefersReducedMotion) THEN velocity
           ELSE Snap(FloatDecayProduct(velocity, options.friction,
                                       options.attraction),
                     options.threshold)
    /\ published' =
           WriteCSS(options,
                    getNormalizedVelocity(velocity', options.maxVelocity,
                                          FloatOne),
                    velocity', FloatOne)
    /\ rafId' = IF Rearm(isRunning, velocity')
                THEN NewHandle(rafQueue \ {h}) ELSE 0
    /\ rafQueue' = IF Rearm(isRunning, velocity')
                   THEN (rafQueue \ {h}) \cup {NewHandle(rafQueue \ {h})}
                   ELSE rafQueue \ {h}
    /\ UNCHANGED <<isRunning, lastScrollY, lastTime, options, listening,
                   prefersReducedMotion>>

\* the old build's attraction values of MigrationSpec, in hundredths
OldAttractions == {4, 20, 50, 80, 96}

\* the migrated option objects: attraction 1 - a written as a literal for
\* each old attraction a, a friction, a threshold and maxVelocity 2
MigrationArgs ==
    { ("friction" :> NumV(Literal(f, 100)))
        @@ ("attraction" :> NumV(Literal(100 - a, 100)))
        @@ ("threshold" :> NumV(Literal(th, 100)))
        @@ ("maxVelocity" :> NumV(2 * FloatOne)) :
      f \in {50, 92}, a \in OldAttractions, th \in {2, 10} }

\* a running new-build tracker that a position sample has just left
\* moving, its frame pending: delta mode, responsiveness 1, scrolled by
\* 1 or 2 px
MigrationInit ==
    /\ \E o \in MigrationArgs : options = Constructor(o, FloatOne)
    /\ isRunning = TRUE
    /\ listening = TRUE
    /\ rafId = 1
    /\ rafQueue = {1}
    /\ \E y \in {-2, -1, 1, 2} :
           /\ lastScrollY = MaxY + y
           /\ velocity = y * FloatOne
    /\ lastTime \in ClockReadings
    /\ prefersReducedMotion = FALSE
    /\ lastOp = Did("scroll", "blended")
    /\ published = << >>

\* the browser runs the pending animation frame
FloatAnimationFrame == \E h \in rafQueue : OnRafFloat(h)

\* no position samples arrive: the tracker only ticks
MigrationNext == FloatAnimationFrame

\* a moving new-build tracker left to decay, in floating point
MigrationSpec == MigrationInit /\ [][MigrationNext]_vars

\* the old build's attraction that the new attraction was migrated from
OldAttraction(attraction) ==
    Literal(CHOOSE a \in OldAttractions : Literal(100 - a, 100) = attraction,
            100)

\* the old build's tick from velocity v, under the options the new
\* tracker's were migrated from
OldTick(v) ==
    Snap(OldDecayProduct(v, options.friction, OldAttraction(options.attraction)),
         options.threshold)

\* what the old build's tick publishes
OldPublished(v) ==
    WriteCSS(options,
             getNormalizedVelocity(OldTick(v), options.maxVelocity, FloatOne),
             OldTick(v), FloatOne)

\* 1 - attraction evaluates to the old build's attraction exactly
ExactComplement ==
    FloatSub(FloatOne, options.attraction) = OldAttraction(options.attraction)

----------------------------------------------------------------------------
(* The reduced-motion override and the tick loop *)

\* the domain of MotionSpec: the flags that enable output and the override
\* vary, and the sample mode; the numbers are fixed
MotionDomain ==
    [ target               |-> {"body"},
      sampleMode           |-> {"delta", "time"},
      responsiveness       |-> {SCALE},
      friction             |-> {SCALE \div 2},
      attraction           |-> {0},
      threshold            |-> {SCALE \div 2},
      maxVelocity          |-> {2 * SCALE},
      writeCSSVariables    |-> BOOLEAN,
      respectReducedMotion |-> BOOLEAN ]

MotionInit == InitOver(MotionDomain)

MotionNext == NextOver(MotionDomain)

\* the tracker under every interleaving of its operations, the preference
\* changing at any time
MotionSpec == MotionInit /\ [][MotionNext]_vars

\* the step is a position sample handled on the reduced-motion path
ReducedSample == lastOp' = Did("scroll", "reduced")

C25_TickRearmsIffMoving ==
    [][ lastOp'.op = "raf" =>
            /\ (isRunning /\ velocity' # 0) <=> rafQueue' # {}
            /\ rafQueue' # {} => (rafId' # 0 /\ rafQueue' = {rafId'})
            /\ rafQueue' = {} => rafId' = 0 ]_vars

\* a tick has decayed a velocity without snapping it and re-requested itself
C25_Witness ==
    /\ lastOp = Did("raf", "decayed")
    /\ isRunning
    /\ velocity # 0
    /\ rafId # 0
    /\ rafQueue = {rafId}

\* C28: in every reachable state in which the tracker is not running the
\* velocity is 0 and no tick is pending; equivalently, a pending tick or a
\* velocity that is not 0 implies that the tracker is running.
C28_StoppedMeansQuiescent ==
    /\ ~isRunning => (velocity = 0 /\ rafQueue = {})
    /\ (rafQueue # {} \/ velocity # 0) => isRunning

\* stop() has stopped a tracker that had been started and scrolled
C28_Witness ==
    /\ lastOp = Did("stop", "stopped")
    /\ ~isRunning
    /\ lastScrollY > 0
    /\ lastTime > 0
    /\ Quiescent

\* the instantaneous estimate of the position sample that the step takes
Estimate ==
    Instantaneous(options.sampleMode, (lastScrollY' - lastScrollY) * SCALE,
                  deltaTOf(lastTime', lastTime, SCALE), SCALE)

\* C26: with maxVelocity m > 0, a position sample on the blend path leaves
\* velocity = clamp(v + r * i, -m, m) for the prior velocity v, the
\* estimate i and the responsiveness r; an estimate of 0 leaves the
\* velocity unchanged when |v| <= m; and the estimate is added to the
\* velocity, not approached by it: with r = 1 and no clamping the sample
\* leaves v + i.
C26_BlendAccumulates ==
    [][ (BlendStep /\ options.maxVelocity > 0) =>
            /\ velocity' =
                   clamp(velocity + Mul(options.responsiveness, Estimate, SCALE),
                         -options.maxVelocity, options.maxVelocity)
            /\ (Estimate = 0 /\ Abs(velocity) <= options.maxVelocity)
                   => velocity' = velocity
            /\ (/\ options.responsiveness = SCALE
                /\ Abs(velocity + Estimate) <= options.maxVelocity)
                   => velocity' = velocity + Estimate ]_vars

\* a sample has left, unclamped, a velocity larger than half the largest
\* displacement a single sample can bring at responsiveness 1/2
C26_Witness ==
    /\ lastOp = Did("scroll", "blended")
    /\ options.sampleMode = "delta"
    /\ options.responsiveness = SCALE \div 2
    /\ options.maxVelocity = 2 * SCALE
    /\ Abs(velocity) > (MaxY * SCALE) \div 2
    /\ Abs(velocity) < options.maxVelocity

\* C30: with maxVelocity = m <= 0 a position sample on the blend path
\* leaves velocity = -m whatever the prior velocity and the sample (0 for
\* m = 0, |m| for m < 0); getNormalizedVelocity() returns 0 in every state
\* with m <= 0; and a tick then still completes, publishing 0 as the
\* normalized value.
C30_NonPositiveMaxVelocity ==
    /\ [][ (BlendStep /\ options.maxVelocity <= 0) =>
               /\ velocity' = -options.maxVelocity
               /\ velocity' >= 0 ]_vars
    /\ [](options.maxVelocity <= 0 =>
              getNormalizedVelocity(velocity, options.maxVelocity, SCALE) = 0)
    /\ [][ (lastOp'.op = "raf" /\ options.maxVelocity <= 0) =>
               /\ Len(published') = 1
               /\ published'[1][1] = 0
               /\ published'[1][2] = 0
               /\ published'[1][3] = 0
               /\ published'[1][4] = ToFixed(velocity', 100, SCALE) ]_vars

\* under a negative maxVelocity a sample scrolled upwards has left the
\* positive velocity -maxVelocity
C30_Witness ==
    /\ lastOp.op = "scroll"
    /\ options.maxVelocity < 0
    /\ lastScrollY = 0
    /\ velocity = -options.maxVelocity

\* C29: a position sample handled on the reduced-motion path leaves
\* lastPosition and lastTimestamp unchanged, so the next sample on the
\* normal path computes its deltas against the last sample (or start())
\* recorded before the override; every sample on the normal path sets
\* lastPosition and lastTimestamp to the position and the clock it read,
\* and its velocity is blended from the deltas to the recorded pair.
C29_ReducedSamplesNotRecorded ==
    /\ [][ ReducedSample =>
               /\ lastScrollY' = lastScrollY
               /\ lastTime' = lastTime ]_vars
    /\ [][ BlendStep =>
               \E y \in Positions, now \in ClockReadings :
                   /\ lastScrollY' = y
                   /\ lastTime' = now
                   /\ velocity' =
                          clamp(Blend(velocity,
                                      Instantaneous(options.sampleMode,
                                          (y - lastScrollY) * SCALE,
                                          deltaTOf(now, lastTime, SCALE), SCALE),
                                      options.responsiveness, SCALE),
                                -options.maxVelocity, options.maxVelocity) ]_vars

\* a sample on the reduced-motion path has left the recorded position and
\* the recorded clock as start() read them, with a tick pending
C29_Witness ==
    /\ lastOp = Did("scroll", "reduced")
    /\ lastScrollY = 0
    /\ lastTime = 0
    /\ isRunning
    /\ rafQueue # {}

----------------------------------------------------------------------------
(* Hybrid sampling, at a resolution of 1/100, the position read in tenths
   of a pixel *)

HybridScale == 100

PositionUnit == 10

\* window.scrollY in tenths of a pixel: 0, 0.2, 0.3, 1 and 50 px
HybridPositions == {0, 2, 3, 10, 500}

\* performance.now(): the elapsed times between two readings are 3, 6, 9,
\* 10, 16, 19, 25, 35, 41 and 44 ms
HybridClock == {0, 3, 9, 19, 44}

\* a tracker constructed with responsiveness 1 and the defaults otherwise
\* (hybrid mode, maxVelocity 200), started at time 0
HybridInit ==
    /\ options = Constructor(("responsiveness" :> NumV(HybridScale)), HybridScale)
    /\ isRunning = TRUE
    /\ listening = TRUE
    /\ rafId = 1
    /\ rafQueue = {1}
    /\ velocity = 0
    /\ lastScrollY \in HybridPositions
    /\ lastTime = 0
    /\ prefersReducedMotion = FALSE
    /\ lastOp = Did("start", "started")
    /\ published = << >>

\* the browser dispatches a scroll event, the clock having advanced
HybridScrollEvent ==
    \E y \in HybridPositions, now \in HybridClock :
        now > lastTime /\ OnScrollAt(y, now, HybridScale, PositionUnit)

\* position samples arrive before the first frame is painted
HybridNext == HybridScrollEvent

\* a started tracker sampled in hybrid mode
HybridSpec == HybridInit /\ [][HybridNext]_vars

\* deltaPosition of the sample that the step takes
SampleDeltaPosition ==
    (lastScrollY' - lastScrollY) * (HybridScale \div PositionUnit)

\* t = max(deltaTime, 4)
SampleT == Max2((lastTime' - lastTime) * HybridScale, 4 * HybridScale)

\* d = deltaPosition, zeroed when |deltaPosition| < 0.3
SampleD ==
    IF Abs(SampleDeltaPosition) < Fixed(3, 10, HybridScale) THEN 0
    ELSE SampleDeltaPosition

\* r = (25 - t) / 15
SampleR == Div(25 * HybridScale - SampleT, 15 * HybridScale, HybridScale)

\* the estimate as C27 states it, branch by branch
StatedEstimate ==
    IF SampleT < 10 * HybridScale
    THEN Mul(SampleD,
             Fixed(85, 100, HybridScale)
                 + Mul(Fixed(15, 100, HybridScale),
                       Div(SampleT, 10 * HybridScale, HybridScale), HybridScale),
             HybridScale)
    ELSE IF SampleT <= 25 * HybridScale
    THEN Mul(SampleR, Mul(SampleD, Fixed(7, 10, HybridScale), HybridScale),
             HybridScale)
             + Mul(HybridScale - SampleR,
                   Div(SampleD, SampleT, HybridScale) * 8, HybridScale)
    ELSE Mul(Div(SampleD, SampleT, HybridScale),
             6 * HybridScale + Ln(SampleT, HybridScale) * 2, HybridScale)

\* C27: in hybrid mode, with t = max(deltaTime, 4) and d = deltaPosition
\* zeroed when |deltaPosition| < 0.3, the estimate blended into the
\* velocity is d*(0.85 + 0.15*t/10) when t < 10, r*(0.7*d) + (1-r)*(8*d/t)
\* with r = (25 - t)/15 when 10 <= t <= 25, and the rate-based estimate
\* only when t > 25; it is 0 when d is 0 and has the sign of deltaPosition
\* otherwise.
C27_HybridEstimate ==
    [][ BlendStep =>
            /\ velocity' = clamp(velocity + StatedEstimate,
                                 -options.maxVelocity, options.maxVelocity)
            /\ SampleD = 0 => StatedEstimate = 0
            /\ SampleD # 0 => StatedEstimate * SampleDeltaPosition > 0 ]_vars

\* a hybrid sample taken at the last clock reading has scrolled back to
\* the top and left a negative velocity
C27_Witness ==
    /\ lastOp = Did("scroll", "blended")
    /\ options.sampleMode = "hybrid"
    /\ lastTime = 44
    /\ lastScrollY = 0
    /\ velocity < 0

====
